---- MODULE Spec2Model ----
(***************************************************************************)
(* Model of auto_string_cleaner/modules/handle_outliers.py.                *)
(*                                                                         *)
(* A Python string is a sequence of character codes (the digit d is the    *)
(* code d).  A column value is a record [t, n, s]: t = "str" carries the   *)
(* string s, t = "int" carries the integer n, t = "none" is None.          *)
(* Floating-point ratios are kept as exact fractions <<num, den>> and are  *)
(* compared by cross-multiplication.                                       *)
(***************************************************************************)
EXTENDS Integers, Sequences, FiniteSets, TLC

VARIABLES df, datatypes, outliers, names,
          col, pc, unique_vals, unique_freq, items, k, draws, branch,
          listed, df0, outliers0, pass, df1,
          arg, res, called

vars == <<df, datatypes, outliers, names, col, pc, unique_vals, unique_freq,
          items, k, draws, branch, listed, df0, outliers0, pass, df1, arg,
          res, called>>

runVars == <<df, datatypes, outliers, names, col, pc, unique_vals,
             unique_freq, items, k, draws, branch, listed, df0, outliers0,
             pass, df1>>

fnVars == <<arg, res, called>>

-----------------------------------------------------------------------------
(* Program constants *)

GramLen == 3

SimNum == 3

SimDen == 4

ThresholdNum == 5

ThresholdDen == 100

RareNum == 25

RareDen == 1000

UniqNum == 8

UniqDen == 10

CutoffNum == 6

CutoffDen == 10

MaxMatches == 3

-----------------------------------------------------------------------------
(* Values *)

StrV(s) == [t |-> "str", n |-> 0, s |-> s]

IntV(n) == [t |-> "int", n |-> n, s |-> <<>>]

NoneV == [t |-> "none", n |-> 0, s |-> <<>>]

RECURSIVE Digits(_)
Digits(n) == IF n < 10 THEN <<n>> ELSE Digits(n \div 10) \o <<n % 10>>

\* the codes of "None": N, o, n, e
NoneStr == <<78, 111, 110, 101>>

\* str(x)
Str(x) ==
    IF x.t = "str" THEN x
    ELSE IF x.t = "int" THEN StrV(Digits(x.n))
    ELSE StrV(NoneStr)

\* bool(x), as used by filter(None, ...)
Truthy(x) ==
    IF x.t = "str" THEN Len(x.s) # 0
    ELSE IF x.t = "int" THEN x.n # 0
    ELSE FALSE

Range(f) == {f[x] : x \in DOMAIN f}

Min(a, b) == IF a < b THEN a ELSE b

\* Python's < on strings
LexLess(a, b) ==
    \E p \in 0..Min(Len(a), Len(b)) :
        /\ \A q \in 1..p : a[q] = b[q]
        /\ \/ p = Len(a) /\ p < Len(b)
           \/ p < Len(a) /\ p < Len(b) /\ a[p + 1] < b[p + 1]

\* all orders in which a set may be listed
RECURSIVE Perms(_)
Perms(S) ==
    IF S = {} THEN {<<>>}
    ELSE UNION {{<<x>> \o f : f \in Perms(S \ {x})} : x \in S}

-----------------------------------------------------------------------------
(* generate_ngram *)

\* set([s[j:j + n] for j in range(stop)]), built from position j on
RECURSIVE GramsFrom(_, _, _, _)
GramsFrom(s, n, j, stop) ==
    IF j >= stop THEN {}
    ELSE {SubSeq(s, j + 1, Min(j + n, Len(s)))} \cup GramsFrom(s, n, j + 1, stop)

generate_ngram_docstring(unique_vals_, n) ==
    [x \in 1..Len(unique_vals_) |->
        GramsFrom(unique_vals_[x].s, n, 0, Len(unique_vals_[x].s) - n + 1)]

generate_ngram(unique_vals_, n) ==
    [x \in 1..Len(unique_vals_) |->
        GramsFrom(unique_vals_[x].s, n, 0, Len(unique_vals_[x].s) - n - 1)]

-----------------------------------------------------------------------------
(* compute_most_similar *)

\* a/b >= c/d and a/b > c/d for fractions with positive denominators
FracGeq(r, c, d) == r[1] * d >= c * r[2]

FracGt(r, q) == r[1] * q[2] > q[1] * r[2]

Jaccard(g1, g2) ==
    LET pair_intersect == g1 \cap g2
        pair_union == g1 \cup g2
    IN  IF Cardinality(pair_union) # 0
        THEN <<Cardinality(pair_intersect), Cardinality(pair_union)>>
        ELSE <<0, 1>>

Improves_nonstrict(ratio, best_ratio) ==
    FracGeq(ratio, SimNum, SimDen) /\ ~FracGt(best_ratio, ratio)

\* the test on line 41
Improves(ratio, best_ratio) ==
    FracGeq(ratio, SimNum, SimDen) /\ FracGt(ratio, best_ratio)

\* the inner loop over j, from j on
RECURSIVE BestPair(_, _, _, _, _, _)
BestPair(unique_vals_, ngram_vals, i, j, best_ratio, best_pair) ==
    IF j > Len(ngram_vals) THEN best_pair
    ELSE LET ratio == Jaccard(ngram_vals[i], ngram_vals[j])
         IN  IF Improves(ratio, best_ratio)
             THEN BestPair(unique_vals_, ngram_vals, i, j + 1, ratio,
                           <<unique_vals_[i], unique_vals_[j]>>)
             ELSE BestPair(unique_vals_, ngram_vals, i, j + 1, best_ratio, best_pair)

\* the outer loop over i, from i on
RECURSIVE Suspects(_, _, _, _)
Suspects(unique_vals_, ngram_vals, i, suspects) ==
    IF i > Len(ngram_vals) THEN suspects
    ELSE LET best_pair == BestPair(unique_vals_, ngram_vals, i, i + 1, <<0, 1>>, <<>>)
         IN  Suspects(unique_vals_, ngram_vals, i + 1,
                      IF best_pair # <<>> THEN Append(suspects, best_pair)
                      ELSE suspects)

compute_most_similar(unique_vals_, ngram_vals) ==
    Suspects(unique_vals_, ngram_vals, 1, <<>>)

-----------------------------------------------------------------------------
(* sort_tuples, compute_ratio *)

\* list.sort is stable: on equal frequencies pair[0] stays first
sort_tuples(freq, pair) ==
    LET tup == <<[v |-> pair[1], f |-> freq[pair[1]]],
                 [v |-> pair[2], f |-> freq[pair[2]]]>>
    IN  IF tup[2].f < tup[1].f THEN <<tup[2], tup[1]>> ELSE tup

compute_ratio(tup) == tup[1].f * ThresholdDen < ThresholdNum * tup[2].f

-----------------------------------------------------------------------------
(* difflib.get_close_matches, as called by compute_close_matches *)

\* SequenceMatcher.find_longest_match on a[alo:ahi], b[blo:bhi]
LongestMatch(a, b, alo, ahi, blo, bhi) ==
    LET Blocks == {m \in (alo..(ahi - 1)) \X (blo..(bhi - 1)) \X (1..Len(a)) :
                      /\ m[1] + m[3] <= ahi
                      /\ m[2] + m[3] <= bhi
                      /\ \A d \in 0..(m[3] - 1) : a[m[1] + d + 1] = b[m[2] + d + 1]}
        First(x, y) ==
            \/ x[3] > y[3]
            \/ x[3] = y[3] /\ x[1] < y[1]
            \/ x[3] = y[3] /\ x[1] = y[1] /\ x[2] <= y[2]
    IN  IF Blocks = {} THEN <<alo, blo, 0>>
        ELSE CHOOSE x \in Blocks : \A y \in Blocks : First(x, y)

\* the total size of SequenceMatcher.get_matching_blocks
RECURSIVE Matches(_, _, _, _, _, _)
Matches(a, b, alo, ahi, blo, bhi) ==
    LET m == LongestMatch(a, b, alo, ahi, blo, bhi)
    IN  IF m[3] = 0 THEN 0
        ELSE m[3] + Matches(a, b, alo, m[1], blo, m[2])
                  + Matches(a, b, m[1] + m[3], ahi, m[2] + m[3], bhi)

\* SequenceMatcher(a = x, b = word).ratio()
SeqRatio(x, word) ==
    IF Len(x) + Len(word) = 0 THEN <<1, 1>>
    ELSE <<2 * Matches(x, word, 0, Len(x), 0, Len(word)), Len(x) + Len(word)>>

\* the loop of get_close_matches: the ratio of each entry against word
RECURSIVE Scores(_, _, _)
Scores(word, possibilities, p) ==
    IF p > Len(possibilities) THEN <<>>
    ELSE <<SeqRatio(possibilities[p].s, word.s)>> \o Scores(word, possibilities, p + 1)

\* heapq.nlargest(n, result): the entries at or above the cutoff, the
\* MaxMatches best of them by (score, x)
Nlargest(possibilities, score) ==
    LET result == {p \in DOMAIN possibilities : FracGeq(score[p], CutoffNum, CutoffDen)}
        \* (score, x) of entry q sorts before that of entry p
        Before(q, p) ==
            \/ FracGt(score[q], score[p])
            \/ /\ ~FracGt(score[p], score[q])
               /\ \/ LexLess(possibilities[p].s, possibilities[q].s)
                  \/ possibilities[p].s = possibilities[q].s /\ q < p
    IN  {possibilities[p] : p \in
            {p \in result : Cardinality({q \in result : Before(q, p)}) < MaxMatches}}

\* the members of the list get_close_matches(word, possibilities) returns
get_close_matches(word, possibilities) ==
    Nlargest(possibilities, Scores(word, possibilities, 1))

-----------------------------------------------------------------------------
(* compute_close_matches *)

\* line 81: list(filter(None, df))
DropFalsy(pool) == SelectSeq(pool, Truthy)

\* lines 81-82
Normalize(pool) ==
    LET kept == SelectSeq(DropFalsy(pool), LAMBDA x : x.t # "str")
    IN  [x \in 1..Len(kept) |-> Str(kept[x])]

\* line 83: the orders in which list(set(...)) may list the matches found.
\* The order of a set is fixed by its members' hashes and the order they
\* were inserted in, so matches of the same suspect that were listed before
\* (seen, pairs of a suspect and a listing) come in the same order again
Listings(found, suspect, seen) ==
    LET before == {p \in seen : p[1] = suspect /\ Range(p[2]) = found}
    IN  IF before = {} THEN Perms(found) ELSE {p[2] : p \in before}

\* lines 74-83
compute_close_matches(pool, suspect, seen) ==
    UNION {Listings(found, suspect, seen) :
              found \in {get_close_matches(suspect, Normalize(pool))}}

-----------------------------------------------------------------------------
(* pandas operations run uses on one column (a sequence of row values) *)

\* df[col].unique(): the distinct values in order of first appearance
Unique(c) ==
    LET firsts == {r \in DOMAIN c : \A q \in 1..(r - 1) : c[q] # c[r]}
    IN  [x \in 1..Cardinality(firsts) |->
            c[CHOOSE r \in firsts : Cardinality({q \in firsts : q < r}) = x - 1]]

\* df[col].value_counts(): missing values are not counted
ValueCounts(c) ==
    [v \in {x \in Range(c) : x.t # "none"} |-> Cardinality({r \in DOMAIN c : c[r] = v})]

\* df[col].replace(a, b)
Replace(c, a, b) == [r \in DOMAIN c |-> IF c[r] = a THEN b ELSE c[r]]

\* df[col].astype(str)
AsTypeStr(c) == [r \in DOMAIN c |-> Str(c[r])]

-----------------------------------------------------------------------------
(* run: the tests of its branches *)

NumericLike_notString(dt) == dt # "string"

\* dt not in names and dt != 'string'
NumericLike(dt) == dt \notin names /\ dt # "string"

\* line 105
AllFlagged(uv, outlier) == Len(uv) = Len(outlier)

\* line 111
FlaggedApplies(outlier, dt) == outlier # <<>> /\ dt # "sentence"

RareApplies_anyLabel(outlier, dt) == outlier = <<>> /\ dt # "sentence"

\* line 153
RareApplies(outlier, dt) == outlier = <<>> /\ dt \in names /\ dt # "sentence"

SetString_frame(dts, c) == [x \in DOMAIN dts |-> "string"]

\* line 108
SetString(dts, c) == [dts EXCEPT ![c] = "string"]

\* line 114, first disjunct
IsRare(freq, v, nrows, nuniq) ==
    /\ freq[v] * RareDen < RareNum * nrows
    /\ nuniq * UniqDen < UniqNum * nrows

\* line 114-115
Considered(freq, out, c, uv, dt) ==
    \/ IsRare(freq, out, Len(c), Len(uv))
    \/ out \in Range(c) /\ NumericLike(dt)

NoCandidate_never(c, outlier) == FALSE

\* line 142
NoCandidate(c, outlier) == Cardinality(Range(Unique(c)) \ Range(outlier)) = 0

\* lines 123-136 and 167-174: the loop over most_sim, from pair p on;
\* err is the KeyError sort_tuples raises for a value the table lacks
RECURSIVE ApplyPairs(_, _, _, _, _, _)
ApplyPairs(c, most_sim, p, target, freq, force) ==
    IF p > Len(most_sim) THEN [c |-> c, err |-> FALSE]
    ELSE LET pair == most_sim[p]
         IN  IF target \notin {pair[1], pair[2]}
             THEN ApplyPairs(c, most_sim, p + 1, target, freq, force)
             ELSE IF pair[1] \notin DOMAIN freq \/ pair[2] \notin DOMAIN freq
             THEN [c |-> c, err |-> TRUE]
             ELSE LET tup == sort_tuples(freq, pair)
                  IN  IF compute_ratio(tup) \/ force
                      THEN ApplyPairs(Replace(c, tup[1].v, tup[2].v), most_sim,
                                      p + 1, target, freq, force)
                      ELSE ApplyPairs(c, most_sim, p + 1, target, freq, force)

\* lines 117-136 for one order cm of the close matches
Repair(c, cm, target, freq, force) ==
    LET ngrams == generate_ngram(cm, GramLen)
        most_sim == compute_most_similar(cm, ngrams)
    IN  ApplyPairs(c, most_sim, 1, target, freq, force)

\* line 155: the rare values, in an order value_counts may list them
InfreqOrders(freq, nrows, nuniq) ==
    LET infreq == {v \in DOMAIN freq : IsRare(freq, v, nrows, nuniq)}
    IN  {f \in Perms(infreq) : \A x, y \in DOMAIN f : x < y => freq[f[x]] >= freq[f[y]]}

-----------------------------------------------------------------------------
(* Bounds and the inputs run is started on *)

NumRows == 41

MaxMinor == 2

MaxOutliers == 2

MaxDraws == 1

S5 == StrV(<<1, 2, 3, 4, 5>>)

S6 == StrV(<<1, 2, 3, 4, 6>>)

S7 == StrV(<<1, 2, 3, 4, 7>>)

I5 == IntV(12345)

I6 == IntV(12346)

I7 == IntV(12347)

Filler == StrV(<<9>>)

\* cnt copies of value v
Repeat(v, cnt) == [r \in 1..cnt |-> v]

\* a column of the first column's family: a few rows of each of S5, S7, the
\* integers and S6, the remaining rows holding S6 or the filler
RichColumns ==
    {Repeat(S5, a) \o Repeat(S7, b) \o Repeat(I5, c) \o Repeat(I6, c)
        \o Repeat(I7, e) \o Repeat(m[1], m[2])
        \o Repeat(m[3], NumRows - (a + b + c + c + e + m[2])) :
        a \in 0..MaxMinor, b \in 0..1, c \in {0, 2}, e \in 0..2,
        m \in {<<S6, 0, S6>>, <<S6, 0, Filler>>, <<S6, 1, Filler>>}}

OutlierLists(V) == UNION {[1..m -> V] : m \in 0..MaxOutliers}

Labels == {"sentence", "string", "email", "integer"}

RichInputs ==
    [c : RichColumns, dt : Labels, outlier : OutlierLists({S5, S6}) \cup {<<I5>>}]

PlainInputs ==
    {[c |-> Repeat(I5, NumRows), dt |-> "integer", outlier |-> <<I5>>]}

FnIdle == arg = <<>> /\ res = <<>> /\ called = FALSE

Init ==
    /\ \E x \in RichInputs, y \in PlainInputs :
        /\ df = <<x.c, y.c>>
        /\ datatypes = <<x.dt, y.dt>>
        /\ outliers = <<x.outlier, y.outlier>>
    /\ names = {"email", "sentence"}
    /\ col = 1
    /\ pc = "col"
    /\ unique_vals = <<>>
    /\ unique_freq = <<>>
    /\ items = <<>>
    /\ k = 0
    /\ draws = 0
    /\ branch = [c \in DOMAIN df |-> "pending"]
    /\ listed = {}
    /\ df0 = df
    /\ outliers0 = outliers
    /\ pass = 1
    /\ df1 = <<>>
    /\ FnIdle

-----------------------------------------------------------------------------
(* run, one column at a time: lines 97-175 *)

\* the for loop over the columns moves on
ColumnDone ==
    /\ col' = col + 1
    /\ pc' = IF col < Len(df) THEN "col" ELSE "done"
    /\ unique_vals' = <<>>
    /\ unique_freq' = <<>>
    /\ items' = <<>>
    /\ k' = 0
    /\ draws' = 0

\* the for loop over outlier moves on
OutDone ==
    IF k < Len(outliers[col])
    THEN /\ k' = k + 1
         /\ draws' = 0
         /\ UNCHANGED <<col, pc, unique_vals, unique_freq, items>>
    ELSE ColumnDone

\* the for loop over infreq_vals moves on
ItemDone ==
    IF k < Len(items)
    THEN /\ k' = k + 1
         /\ UNCHANGED <<col, pc, unique_vals, unique_freq, items, draws>>
    ELSE ColumnDone

Raise ==
    /\ pc' = "error"
    /\ UNCHANGED <<col, unique_vals, unique_freq, items, k, draws>>

\* lines 105-108
TotalOutlierFallback ==
    /\ pc = "col"
    /\ AllFlagged(Unique(df[col]), outliers[col])
    /\ df' = [df EXCEPT ![col] = AsTypeStr(df[col])]
    /\ datatypes' = SetString(datatypes, col)
    /\ branch' = [branch EXCEPT ![col] = "total"]
    /\ ColumnDone
    /\ UNCHANGED <<outliers, names, listed, df0, outliers0, pass, df1, fnVars>>

\* line 111
EnterFlagged ==
    /\ pc = "col"
    /\ ~AllFlagged(Unique(df[col]), outliers[col])
    /\ FlaggedApplies(outliers[col], datatypes[col])
    /\ unique_vals' = Unique(df[col])
    /\ unique_freq' = ValueCounts(df[col])
    /\ branch' = [branch EXCEPT ![col] = "flagged"]
    /\ pc' = "out"
    /\ k' = 1
    /\ UNCHANGED <<df, datatypes, outliers, names, col, items, draws, listed, df0,
                   outliers0, pass, df1, fnVars>>

\* lines 153-156
EnterRare ==
    /\ pc = "col"
    /\ ~AllFlagged(Unique(df[col]), outliers[col])
    /\ ~FlaggedApplies(outliers[col], datatypes[col])
    /\ RareApplies(outliers[col], datatypes[col])
    /\ branch' = [branch EXCEPT ![col] = "rare"]
    /\ \E ord \in InfreqOrders(ValueCounts(df[col]), Len(df[col]),
                               Len(Unique(df[col]))) :
        IF ord = <<>> THEN ColumnDone
        ELSE /\ items' = ord
             /\ unique_vals' = Unique(df[col])
             /\ unique_freq' = ValueCounts(df[col])
             /\ pc' = "item"
             /\ k' = 1
             /\ UNCHANGED <<col, draws>>
    /\ UNCHANGED <<df, datatypes, outliers, names, listed, df0, outliers0, pass, df1,
                   fnVars>>

\* no branch of the if statement applies
SkipColumn ==
    /\ pc = "col"
    /\ ~AllFlagged(Unique(df[col]), outliers[col])
    /\ ~FlaggedApplies(outliers[col], datatypes[col])
    /\ ~RareApplies(outliers[col], datatypes[col])
    /\ branch' = [branch EXCEPT ![col] = "none"]
    /\ ColumnDone
    /\ UNCHANGED <<df, datatypes, outliers, names, listed, df0, outliers0, pass, df1,
                   fnVars>>

\* lines 112-143: one flagged value, up to the sampling loop
OutStep ==
    /\ pc = "out"
    /\ LET out == outliers[col][k]
           dt == datatypes[col]
       IN  \/ \* unique_freq.at[out] raises KeyError
              /\ out \notin DOMAIN unique_freq
              /\ Raise
              /\ UNCHANGED <<df, listed>>
           \/ /\ out \in DOMAIN unique_freq
              /\ ~Considered(unique_freq, out, df[col], unique_vals, dt)
              /\ OutDone
              /\ UNCHANGED <<df, listed>>
           \/ \* difflib raises TypeError on a suspect that is no string
              /\ out \in DOMAIN unique_freq
              /\ Considered(unique_freq, out, df[col], unique_vals, dt)
              /\ out.t # "str"
              /\ Raise
              /\ UNCHANGED <<df, listed>>
           \/ /\ out \in DOMAIN unique_freq
              /\ Considered(unique_freq, out, df[col], unique_vals, dt)
              /\ out.t = "str"
              /\ \E cm \in compute_close_matches(unique_vals, out, listed) :
                  LET r == Repair(df[col], cm, out, unique_freq, NumericLike(dt))
                  IN  /\ listed' = listed \cup {<<out, cm>>}
                      /\ df' = [df EXCEPT ![col] = r.c]
                      /\ IF r.err THEN Raise
                         ELSE IF out \in Range(r.c) /\ NumericLike(dt)
                                 /\ ~NoCandidate(r.c, outliers[col])
                         THEN /\ pc' = "sample"
                              /\ draws' = 0
                              /\ UNCHANGED <<col, unique_vals, unique_freq, items, k>>
                         ELSE OutDone
    /\ UNCHANGED <<datatypes, outliers, names, branch, df0, outliers0, pass, df1, fnVars>>

\* lines 145-151: a draw that hits a value outside the outlier list
SampleHit ==
    /\ pc = "sample"
    /\ \E replacement \in Range(df[col]) :
        /\ replacement \notin Range(outliers[col])
        /\ df' = [df EXCEPT ![col] = Replace(df[col], outliers[col][k], replacement)]
    /\ IF k < Len(outliers[col])
       THEN /\ k' = k + 1
            /\ pc' = "out"
            /\ draws' = 0
            /\ UNCHANGED <<col, unique_vals, unique_freq, items>>
       ELSE ColumnDone
    /\ UNCHANGED <<datatypes, outliers, names, branch, listed, df0, outliers0, pass, df1,
                   fnVars>>

\* lines 145-147: a draw that hits a flagged value; the loop goes round
SampleMiss ==
    /\ pc = "sample"
    /\ \E replacement \in Range(df[col]) : replacement \in Range(outliers[col])
    /\ draws' = IF draws < MaxDraws THEN draws + 1 ELSE draws
    /\ UNCHANGED <<df, datatypes, outliers, names, col, pc, unique_vals,
                   unique_freq, items, k, branch, listed, df0, outliers0, pass, df1,
                   fnVars>>

\* lines 159-174: one rare value
RareStep ==
    /\ pc = "item"
    /\ LET item == items[k]
       IN  \/ /\ item.t # "str"
              /\ Raise
              /\ UNCHANGED <<df, listed>>
           \/ /\ item.t = "str"
              /\ \E cm \in compute_close_matches(unique_vals, item, listed) :
                  LET r == Repair(df[col], cm, item, unique_freq, FALSE)
                  IN  /\ listed' = listed \cup {<<item, cm>>}
                      /\ df' = [df EXCEPT ![col] = r.c]
                      /\ IF r.err THEN Raise ELSE ItemDone
    /\ UNCHANGED <<datatypes, outliers, names, branch, df0, outliers0, pass, df1, fnVars>>

Next ==
    \/ TotalOutlierFallback
    \/ EnterFlagged
    \/ EnterRare
    \/ SkipColumn
    \/ OutStep
    \/ SampleHit
    \/ SampleMiss
    \/ RareStep

Spec == Init /\ [][Next]_vars

\* a uniform draw hits a value that is present, sooner or later
FairSpec == Spec /\ WF_vars(SampleHit)

-----------------------------------------------------------------------------
(* run called again on the dataset and labels it returned, no outliers flagged *)

SecondRun ==
    /\ pc = "done"
    /\ pass = 1
    /\ pass' = 2
    /\ df1' = df
    /\ outliers' = [c \in DOMAIN outliers |-> <<>>]
    /\ col' = 1
    /\ pc' = "col"
    /\ branch' = [c \in DOMAIN df |-> "pending"]
    /\ unique_vals' = <<>>
    /\ unique_freq' = <<>>
    /\ items' = <<>>
    /\ k' = 0
    /\ draws' = 0
    /\ UNCHANGED <<df, datatypes, names, listed, df0, outliers0, fnVars>>

NextTwice == Next \/ SecondRun

TwiceSpec == Init /\ [][NextTwice]_vars

-----------------------------------------------------------------------------
(* The helper functions called on their own *)

MaxLen == 6

MaxGram == 4

MaxVals == 3

MaxPool == 2

\* no run in progress; fn names the function under test
RunIdle(fn) ==
    /\ df = <<>> /\ datatypes = <<>> /\ outliers = <<>>
    /\ names = {"email", "sentence"}
    /\ col = 0 /\ pc = fn
    /\ unique_vals = <<>> /\ unique_freq = <<>> /\ items = <<>>
    /\ k = 0 /\ draws = 0 /\ branch = <<>> /\ listed = {}
    /\ df0 = <<>> /\ outliers0 = <<>> /\ pass = 0 /\ df1 = <<>>

StringsUpTo(len, alphabet) == UNION {[1..m -> alphabet] : m \in 0..len}

InitNgram ==
    /\ RunIdle("generate_ngram")
    /\ arg \in [s : StringsUpTo(MaxLen, {1, 2}), n : 1..MaxGram]
    /\ res = <<>>
    /\ called = FALSE

CallNgram ==
    /\ pc = "generate_ngram" /\ ~called
    /\ res' = generate_ngram(<<StrV(arg.s)>>, arg.n)
    /\ called' = TRUE
    /\ UNCHANGED <<arg, runVars>>

NgramSpec == InitNgram /\ [][CallNgram]_vars

\* gram sets over four grams: empty, or three or four grams
GramSets ==
    {g \in SUBSET {<<1, 2, 3>>, <<2, 3, 4>>, <<3, 4, 5>>, <<4, 5, 6>>} :
        Cardinality(g) \in {0, 3, 4}}

InitSimilar ==
    /\ RunIdle("compute_most_similar")
    /\ \E m \in 0..MaxVals :
        arg \in [vals : [1..m -> {StrV(<<1>>), StrV(<<2>>)}], grams : [1..m -> GramSets]]
    /\ res = <<>>
    /\ called = FALSE

CallSimilar ==
    /\ pc = "compute_most_similar" /\ ~called
    /\ res' = compute_most_similar(arg.vals, arg.grams)
    /\ called' = TRUE
    /\ UNCHANGED <<arg, runVars>>

SimilarSpec == InitSimilar /\ [][CallSimilar]_vars

PoolValues == {S5, S6, I5, I6, IntV(0), StrV(<<>>), NoneV}

InitClose ==
    /\ RunIdle("compute_close_matches")
    /\ \E m \in 0..MaxPool :
        arg \in [pool : [1..m -> PoolValues], suspect : {S5, StrV(<<1, 2>>)}]
    /\ res = <<>>
    /\ called = FALSE

\* res.pool is the list handed to difflib, res.matches the list returned
CallClose ==
    /\ pc = "compute_close_matches" /\ ~called
    /\ \E cm \in compute_close_matches(arg.pool, arg.suspect, listed) :
        res' = [pool |-> Normalize(arg.pool), matches |-> cm]
    /\ called' = TRUE
    /\ UNCHANGED <<arg, runVars>>

CloseSpec == InitClose /\ [][CallClose]_vars

-----------------------------------------------------------------------------
(* Properties *)

\* the column currently processed holds a value outside its outlier list
HasCandidate == \E r \in DOMAIN df[col] : df[col][r] \notin Range(outliers[col])

\* the frequency ratio of a and b in table freq is below 0.05
Confident(freq, a, b) ==
    \/ freq[a] * 100 < 5 * freq[b]
    \/ freq[b] * 100 < 5 * freq[a]

\* the string values of table freq that difflib judges close to out
Partners(freq, out) ==
    {p \in DOMAIN freq :
        /\ p # out /\ p.t = "str" /\ out.t = "str"
        /\ 10 * Matches(p.s, out.s, 0, Len(p.s), 0, Len(out.s))
              >= 3 * (Len(p.s) + Len(out.s))}

\* C1 (as claimed): the pool handed to the matcher keeps every non-empty
\* string entry of the input pool and holds the string form of every
\* non-string entry; a pool made only of non-empty strings is handed over
\* unchanged, so the suspect itself, when it is in the pool, is returned.
C1_Claim ==
    called /\ pc = "compute_close_matches" =>
        /\ \A x \in Range(arg.pool) :
            /\ (x.t = "str" /\ x.s # <<>>) => x \in Range(res.pool)
            /\ (x.t = "int" /\ x.n # 0) => StrV(Digits(x.n)) \in Range(res.pool)
        /\ (\A x \in Range(arg.pool) : x.t = "str" /\ x.s # <<>>) =>
            /\ res.pool = arg.pool
            /\ arg.suspect \in Range(arg.pool) => arg.suspect \in Range(res.matches)

\* C2 (as claimed): the total-outlier fallback is the branch taken for a
\* column if and only if every unique value of the column is in its
\* outlier list.
C2_Claim ==
    [][pc = "col" =>
        (branch'[col] = "total" <=> Range(df[col]) \subseteq Range(outliers[col]))]_vars

\* the window starts j for which s[j:j+n] is in the result, when the last
\* start is L - n - drop
Windows(s, n, drop) == {SubSeq(s, j + 1, j + n) : j \in 0..(Len(s) - n - drop)}

Qualifying(grams, i) ==
    {j \in (i + 1)..Len(grams) :
        /\ grams[i] \cup grams[j] # {}
        /\ 4 * Cardinality(grams[i] \cap grams[j]) >= 3 * Cardinality(grams[i] \cup grams[j])}

\* the qualifying index of the highest ratio, the lowest such index on ties
BestPartner(grams, i) ==
    CHOOSE j \in Qualifying(grams, i) : \A h \in Qualifying(grams, i) :
        LET nj == Cardinality(grams[i] \cap grams[j])
            dj == Cardinality(grams[i] \cup grams[j])
            nh == Cardinality(grams[i] \cap grams[h])
            dh == Cardinality(grams[i] \cup grams[h])
        IN  nj * dh > nh * dj \/ (nj * dh = nh * dj /\ j <= h)

\* C4: compute_most_similar returns, in increasing order of i, one pair
\* [vals[i], vals[j]] for exactly the indices i that have a later index of
\* ratio >= 0.75, j being the later index of the highest ratio and the
\* lowest such index on ties; nothing else is returned.
C4_Thm ==
    called /\ pc = "compute_most_similar" =>
        LET lefts == {i \in 1..Len(arg.grams) : Qualifying(arg.grams, i) # {}}
            left(x) == CHOOSE i \in lefts : Cardinality({h \in lefts : h < i}) = x - 1
        IN  res = [x \in 1..Cardinality(lefts) |->
                      <<arg.vals[left(x)], arg.vals[BestPartner(arg.grams, left(x))]>>]

C4_Wit ==
    /\ called /\ pc = "compute_most_similar" /\ Len(res) >= 2
    /\ \E i \in 1..Len(arg.grams) : Cardinality(Qualifying(arg.grams, i)) >= 2

\* C5: the sampling loop runs only while the column holds a value outside
\* the outlier list; a flagged value that is still present when no such
\* value exists is passed over without entering the loop; and once in the
\* loop, fair draws leave it.
C5_Thm ==
    /\ [](pc = "sample" => HasCandidate)
    /\ [][(/\ pc = "out" /\ pc' # "error"
           /\ outliers[col][k] \in Range(df'[col])
           /\ Range(df'[col]) \subseteq Range(outliers[col]))
          => (pc' # "sample" /\ (k' = k + 1 \/ col' = col + 1))]_vars
    /\ (pc = "sample") ~> (pc # "sample")

C5_Wit == pc = "sample" /\ draws > 0

\* C6 (as claimed): on a recognized-subtype column, a flagged value that is
\* present together with non-flagged values and whose frequency ratio
\* against its close matches is not below 0.05 has, once the column is
\* done, been replaced everywhere by a non-flagged value of the column.
C6_Orig ==
    \A out \in Range(outliers0[1]) :
        (/\ pass = 1 /\ col > 1
         /\ datatypes[1] \in names /\ datatypes[1] # "sentence"
         /\ out \in Range(df0[1])
         /\ Range(df0[1]) \ Range(outliers0[1]) # {}
         /\ Partners(ValueCounts(df0[1]), out) # {}
         /\ \A p \in Partners(ValueCounts(df0[1]), out) :
                ~Confident(ValueCounts(df0[1]), out, p))
        => \A r \in DOMAIN df[1] :
               df0[1][r] = out =>
                   df[1][r] \in Range(df0[1]) \ Range(outliers0[1])

\* C6 (amended): on a recognized-subtype column the sampling loop is never
\* entered, and a flagged value of the column whose frequency ratio against
\* each of its close matches is not below 0.05 is left where it is:
\* handling it changes no value of the dataset.
C6_Thm ==
    [][(pc = "out" /\ datatypes[col] \in names) =>
        /\ pc' # "sample"
        /\ (/\ outliers[col][k] \in DOMAIN unique_freq
            /\ \A p \in Partners(unique_freq, outliers[col][k]) :
                   ~Confident(unique_freq, outliers[col][k], p)) => df' = df]_vars

C6_Wit ==
    /\ pass = 1 /\ col > 1 /\ datatypes[1] = "email" /\ branch[1] = "flagged"
    /\ \E out \in Range(outliers0[1]) :
        /\ out \in Range(df[1])
        /\ Partners(ValueCounts(df0[1]), out) # {}
        /\ \A p \in Partners(ValueCounts(df0[1]), out) :
               ~Confident(ValueCounts(df0[1]), out, p)

\* C7 (as claimed): a second run on the returned dataset and labels, with
\* no outliers flagged because none remains, replaces no value.
C7_Orig ==
    (/\ pass = 2 /\ pc = "done"
     /\ \A c \in DOMAIN df1 : Range(df1[c]) \cap Range(outliers0[c]) = {})
    => df = df1

\* C7 (amended): a second run with no outliers flagged replaces no value
\* in a column whose returned label is "sentence" or is not a recognized
\* string subtype; a recognized-subtype column gets the rare-value repair
\* and may still change.
C7_Thm ==
    pass = 2 =>
        \A c \in DOMAIN df :
            (datatypes[c] \notin names \/ datatypes[c] = "sentence") => df[c] = df1[c]

C7_Wit ==
    /\ pass = 2 /\ pc = "done" /\ df1 # df0
    /\ \E c \in DOMAIN df : datatypes[c] \notin names /\ branch[c] = "none"

C9_Claim ==
    [][(pc = "out" /\ pc' # "error"
        /\ datatypes[col] \notin names /\ datatypes[col] # "string") =>
        \A r \in DOMAIN df[col] :
            (/\ df[col][r] # outliers[col][k]
             /\ df[col][r] \notin Range(outliers[col])
             /\ outliers[col][k] \in DOMAIN unique_freq
             /\ df[col][r] \in DOMAIN unique_freq
             /\ ~Confident(unique_freq, outliers[col][k], df[col][r]))
            => df'[col][r] # outliers[col][k]]_vars

\* C10 (as claimed): once a numeric-like column is done whose outlier list
\* is non-empty, differs in length from the number of unique values, holds
\* only values of the column and leaves at least one value unflagged, no
\* flagged value occurs in the column.
C10_Claim ==
    \A c \in DOMAIN df :
        (/\ pass = 1 /\ col > c
         /\ datatypes[c] \notin names \cup {"sentence", "string"}
         /\ outliers0[c] # <<>>
         /\ Len(outliers0[c]) # Cardinality(Range(df0[c]))
         /\ Range(outliers0[c]) \subseteq Range(df0[c])
         /\ Range(df0[c]) \ Range(outliers0[c]) # {})
        => Range(df[c]) \cap Range(outliers0[c]) = {}

====
